---- MODULE Spec2Model ----
(***************************************************************************)
(* KuberAI simulation backend (src/app/main.py, models.py, schemas.py).    *)
(*                                                                         *)
(* Text is modelled as a sequence of one-character strings, so that the    *)
(* substring tests, the regular-expression word boundaries, strip(),       *)
(* split() and lower() of the source are computed, not assumed.            *)
(* Prices are integers in thousandths of a rupee (INR(100) is Rs 100).     *)
(* A percentage is an exact fraction [num, den] with den > 0.              *)
(***************************************************************************)
EXTENDS Integers, Sequences, FiniteSets, TLC

VARIABLES
    \* environment: the collaborators a request meets
    gemini,          \* gemini_model is not None
    goldKey,         \* GOLD_API_KEY is set
    file,            \* content of gold_data_backup.json
    \* POST /ask-kuber, one request
    pc,              \* position of the handler
    question,        \* request.question
    is_gold_query,
    classification,
    extra_data,
    history,
    trend_insight,
    ai_response,
    reply,           \* the KuberResponse returned
    llm,             \* what each of the three LLM calls did
    excAt,           \* the step whose exception reached the top-level except
    \* the price helpers called on their own
    fetchOp,
    fetchResult,
    \* the trend helpers called on their own
    series,
    period,
    percent,
    trendText,
    \* POST /buy-gold and the relational store
    users,           \* rows of table users, in insertion order
    transactions,    \* rows of table transactions, in insertion order
    txReq,           \* txReq[i]: the request that created transactions[i]
    lastReq,         \* the purchase request handled last
    lastOutcome,     \* how that request ended
    nbuys,           \* number of purchase requests received
    procs            \* the purchase requests in flight

envVars == <<gemini, goldKey, file>>
askVars == <<pc, question, is_gold_query, classification, extra_data, history,
             trend_insight, ai_response, reply, llm, excAt>>
fetchVars == <<fetchOp, fetchResult>>
trendVars == <<series, period, percent, trendText>>
buyVars == <<users, transactions, txReq, lastReq, lastOutcome, nbuys, procs>>
vars == <<envVars, askVars, fetchVars, trendVars, buyVars>>

Min(a, b) == IF a <= b THEN a ELSE b
Max(a, b) == IF a >= b THEN a ELSE b
Abs(a) == IF a < 0 THEN -a ELSE a

(***************************************************************************)
(* Text                                                                    *)
(***************************************************************************)
UpperCase == <<"A", "B", "C", "D", "E", "F", "G", "H", "I", "J", "K", "L", "M",
               "N", "O", "P", "Q", "R", "S", "T", "U", "V", "W", "X", "Y", "Z">>
LowerCase == <<"a", "b", "c", "d", "e", "f", "g", "h", "i", "j", "k", "l", "m",
               "n", "o", "p", "q", "r", "s", "t", "u", "v", "w", "x", "y", "z">>
Digits == {"0", "1", "2", "3", "4", "5", "6", "7", "8", "9"}

\* str.lower() on one character
LowerChar(c) ==
    IF \E i \in 1..Len(UpperCase) : UpperCase[i] = c
    THEN LowerCase[CHOOSE i \in 1..Len(UpperCase) : UpperCase[i] = c]
    ELSE c

\* str.lower()
Lower(s) == [i \in 1..Len(s) |-> LowerChar(s[i])]

\* the regular expression class \w
IsWordChar(c) ==
    \/ \E i \in 1..Len(LowerCase) : LowerCase[i] = c \/ UpperCase[i] = c
    \/ c \in Digits
    \/ c = "_"

\* the characters str.strip() and str.split() treat as whitespace
IsSpace(c) == c \in {" ", "\n", "\t", "\r"}

\* sub occurs in s at position i
OccursAt(sub, s, i) ==
    /\ i >= 1
    /\ i + Len(sub) - 1 <= Len(s)
    /\ \A j \in 1..Len(sub) : s[i + j - 1] = sub[j]

\* Python's  sub in s
Contains(sub, s) == \E i \in 1..(Len(s) + 1) : OccursAt(sub, s, i)

\* re.search(r"\bword\b", s, flags=re.I): word starts and ends with a \w
\* character, so \b asks for a non-\w character (or the end of s) on each side
WordMatch(word, s) ==
    \E i \in 1..Len(s) :
        /\ OccursAt(word, Lower(s), i)
        /\ i = 1 \/ ~IsWordChar(s[i - 1])
        /\ i + Len(word) - 1 = Len(s) \/ ~IsWordChar(s[i + Len(word)])

RECURSIVE LStrip(_)
LStrip(s) == IF s # <<>> /\ IsSpace(Head(s)) THEN LStrip(Tail(s)) ELSE s

RECURSIVE RStrip(_)
RStrip(s) ==
    IF s # <<>> /\ IsSpace(s[Len(s)]) THEN RStrip(SubSeq(s, 1, Len(s) - 1)) ELSE s

\* str.strip()
Strip(s) == RStrip(LStrip(s))

\* str.split(): the maximal runs of non-whitespace characters, in order
RECURSIVE SplitWords(_, _, _)
SplitWords(s, cur, acc) ==
    IF s = <<>> THEN (IF cur = <<>> THEN acc ELSE Append(acc, cur))
    ELSE IF IsSpace(Head(s))
         THEN SplitWords(Tail(s), <<>>, IF cur = <<>> THEN acc ELSE Append(acc, cur))
         ELSE SplitWords(Tail(s), Append(cur, Head(s)), acc)

\* " ".join(words)
RECURSIVE JoinSpace(_)
JoinSpace(words) ==
    IF words = <<>> THEN <<>>
    ELSE IF Len(words) = 1 THEN words[1]
    ELSE words[1] \o <<" ">> \o JoinSpace(Tail(words))

_clean_text_joined(s) == JoinSpace(SplitWords(s, <<>>, <<>>))

\* _clean_text: the empty text is returned as it is
_clean_text(s) == IF s = <<>> THEN s ELSE _clean_text_joined(s)

BlankLine == <<"\n", "\n">>

\* position of the first "\n\n" in s, 0 when there is none
FirstBlank(s) ==
    IF Contains(BlankLine, s) /\ Len(s) >= 2
    THEN CHOOSE i \in 1..Len(s) :
            /\ OccursAt(BlankLine, s, i)
            /\ \A j \in 1..(i - 1) : ~OccursAt(BlankLine, s, j)
    ELSE 0

\* s.split("\n\n", 1)
SplitBlankOnce(s) ==
    IF FirstBlank(s) = 0 THEN <<s>>
    ELSE <<SubSeq(s, 1, FirstBlank(s) - 1), SubSeq(s, FirstBlank(s) + 2, Len(s))>>

(***************************************************************************)
(* Query classifier                                                        *)
(***************************************************************************)
K_price == <<"p", "r", "i", "c", "e">>
K_rate == <<"r", "a", "t", "e">>
K_current == <<"c", "u", "r", "r", "e", "n", "t">>
K_today == <<"t", "o", "d", "a", "y">>
K_history == <<"h", "i", "s", "t", "o", "r", "y">>
K_past == <<"p", "a", "s", "t">>
K_last == <<"l", "a", "s", "t">>
K_trend == <<"t", "r", "e", "n", "d">>
K_predict == <<"p", "r", "e", "d", "i", "c", "t">>
K_forecast == <<"f", "o", "r", "e", "c", "a", "s", "t">>
K_future == <<"f", "u", "t", "u", "r", "e">>
K_will == <<"w", "i", "l", "l">>
K_gold == <<"g", "o", "l", "d">>
K_digital_gold == <<"d", "i", "g", "i", "t", "a", "l", " ", "g", "o", "l", "d">>
K_xau == <<"x", "a", "u">>
K_yes == <<"y", "e", "s">>

I_current_price == <<"c", "u", "r", "r", "e", "n", "t", "_", "p", "r", "i", "c", "e">>
I_history == <<"h", "i", "s", "t", "o", "r", "y">>
I_prediction == <<"p", "r", "e", "d", "i", "c", "t", "i", "o", "n">>
I_general_info == <<"g", "e", "n", "e", "r", "a", "l", "_", "i", "n", "f", "o">>

PriceTerms == {K_price, K_rate, K_current, K_today}
HistoryTerms == {K_history, K_past, K_last, K_trend}
PredictionTerms == {K_predict, K_forecast, K_future, K_will}

\* any(k in q for k in terms)
AnyIn(terms, q) == \E k \in terms : Contains(k, q)

\* a slip of the precedence: the prediction terms tried before the price terms
KeywordClassifyPredictionFirst(q) ==
    IF AnyIn(PredictionTerms, Lower(q)) THEN I_prediction
    ELSE IF AnyIn(PriceTerms, Lower(q)) THEN I_current_price
    ELSE IF AnyIn(HistoryTerms, Lower(q)) THEN I_history
    ELSE I_general_info

_keyword_classify(q) ==
    IF AnyIn(PriceTerms, Lower(q)) THEN I_current_price
    ELSE IF AnyIn(HistoryTerms, Lower(q)) THEN I_history
    ELSE IF AnyIn(PredictionTerms, Lower(q)) THEN I_prediction
    ELSE I_general_info

_is_gold_by_keyword(q) ==
    WordMatch(K_gold, q) \/ WordMatch(K_digital_gold, q) \/ WordMatch(K_xau, q)

(***************************************************************************)
(* Numbers                                                                 *)
(***************************************************************************)
INR(x) == x * 1000

\* n / d rounded to the nearest integer, a tie to the even one (d > 0)
RoundDivPos(n, d) ==
    LET q == n \div d
        r == n % d
    IN  IF 2 * r > d THEN q + 1
        ELSE IF 2 * r = d THEN q + (q % 2)
        ELSE q

RoundDiv(n, d) == IF n >= 0 THEN RoundDivPos(n, d) ELSE -RoundDivPos(-n, d)

\* round(x, 2) of a price held in thousandths
Round2(m) == RoundDiv(m, 10) * 10

RECURSIVE GCD(_, _)
GCD(a, b) == IF b = 0 THEN a ELSE GCD(b, a % b)

\* the fraction n / d in lowest terms (d > 0)
Pct(n, d) == [num |-> n \div GCD(Abs(n), d), den |-> d \div GCD(Abs(n), d)]
PctZero == Pct(0, 1)

\* f"{p:.2f}": the value in hundredths
Format2(p) == RoundDiv(p.num * 100, p.den)

(***************************************************************************)
(* Python values                                                           *)
(***************************************************************************)
EmptyDict == <<>>
HasKey(d, k) == k \in DOMAIN d
Returned(v) == [exc |-> "", value |-> v]
Raised(e) == [exc |-> e, value |-> <<>>]
WithCalls(r, n) == [exc |-> r.exc, value |-> r.value, calls |-> n]

\* s[i:] for a Python index i
PySliceFrom(s, i) ==
    LET from == IF i < 0 THEN Max(Len(s) + i, 0) ELSE Min(i, Len(s))
    IN  SubSeq(s, from + 1, Len(s))

\* s[:n], what a slice taken from the wrong end gives
PySliceUpTo(s, n) == SubSeq(s, 1, Min(Max(n, 0), Len(s)))

(***************************************************************************)
(* Backup price store                                                      *)
(***************************************************************************)
\* An entry of the snapshot: dk says whether its 'date' key is there and
\* parses ("ok"), is missing ("absent") or does not parse ("unparsable").
Point(d, p) == [dk |-> "ok", date |-> d, price |-> p]
NoDatePoint(p) == [dk |-> "absent", date |-> 0, price |-> p]
BadDatePoint(p) == [dk |-> "unparsable", date |-> 0, price |-> p]

\* The snapshot file: missing, not JSON, a JSON object (empty or not), a
\* JSON list of entries.
MissingFile == [kind |-> "missing", entries |-> <<>>]
BadJsonFile == [kind |-> "badjson", entries |-> <<>>]
EmptyObjectFile == [kind |-> "emptyobject", entries |-> <<>>]
ObjectFile == [kind |-> "object", entries |-> <<>>]
ListFile(es) == [kind |-> "list", entries |-> es]

\* x placed after every element whose date is not later: a stable insertion
RECURSIVE InsertByDate(_, _)
InsertByDate(x, s) ==
    IF s = <<>> THEN <<x>>
    ELSE IF s[Len(s)].date <= x.date THEN Append(s, x)
    ELSE Append(InsertByDate(x, SubSeq(s, 1, Len(s) - 1)), s[Len(s)])

\* sorted(data, key=date): stable, ascending
RECURSIVE SortedByDate(_)
SortedByDate(s) ==
    IF s = <<>> THEN <<>>
    ELSE InsertByDate(s[Len(s)], SortedByDate(SubSeq(s, 1, Len(s) - 1)))

\* the exception the key function raises on the first entry it cannot date
KeyError(es) ==
    LET bad == {i \in 1..Len(es) : es[i].dk # "ok"}
    IN  IF bad = {} THEN ""
        ELSE LET i == CHOOSE i \in bad : \A j \in bad : i <= j
             IN  IF es[i].dk = "absent" THEN "KeyError" ELSE "ValueError"

\* the snapshot returned in its on-disk order
LoadUnsorted(f) ==
    IF f.kind \in {"missing", "badjson"} THEN Returned(<<>>)
    ELSE IF f.kind = "emptyobject" THEN Returned(<<>>)
    ELSE IF f.kind = "object" THEN Raised("TypeError")
    ELSE IF KeyError(f.entries) # "" THEN Raised(KeyError(f.entries))
    ELSE Returned(f.entries)

get_backup_gold_data(f) ==
    IF f.kind \in {"missing", "badjson"} THEN Returned(<<>>)
    ELSE IF f.kind = "emptyobject" THEN Returned(<<>>)
    ELSE IF f.kind = "object" THEN Raised("TypeError")
    ELSE IF KeyError(f.entries) # "" THEN Raised(KeyError(f.entries))
    ELSE Returned(SortedByDate(f.entries))

(***************************************************************************)
(* Live price fetcher                                                      *)
(***************************************************************************)
\* What the one HTTP call of a helper does.  kind: "timeout", "http_error"
\* (raise_for_status), "bad_json" (r.json() raises), "no_field" (the price
\* field is missing, the history is no list or an empty one), "bad_value"
\* (a field that round() or the comprehension rejects), "ok".
ApiFail(k) == [kind |-> k, price |-> 0, list |-> <<>>]
ApiPrice(p) == [kind |-> "ok", price |-> p, list |-> <<>>]
ApiList(l) == [kind |-> "ok", price |-> 0, list |-> l]

LivePoint(e) == [date |-> e.date, price |-> Round2(e.price)]

\* a fallback that reads the first entry of the backup
PriceFromBackupFirst(f) ==
    LET b == get_backup_gold_data(f)
    IN  IF b.exc # "" THEN Raised(b.exc)
        ELSE IF b.value # <<>>
        THEN Returned([source |-> "backup",
                       current_price_inr_per_gram |-> b.value[1].price])
        ELSE Returned([error |-> "Failed to fetch live gold price and backup is unavailable."])

\* the fallback of get_live_gold_price
PriceFromBackup(f) ==
    LET b == get_backup_gold_data(f)
    IN  IF b.exc # "" THEN Raised(b.exc)
        ELSE IF b.value # <<>>
        THEN Returned([source |-> "backup",
                       current_price_inr_per_gram |-> b.value[Len(b.value)].price])
        ELSE Returned([error |-> "Failed to fetch live gold price and backup is unavailable."])

\* get_live_gold_price(); calls: the HTTP calls made
get_live_gold_price(key, api, f) ==
    IF key /\ api.kind = "ok"
    THEN WithCalls(Returned([source |-> "live",
                             current_price_inr_per_gram |-> Round2(api.price)]), 1)
    ELSE WithCalls(PriceFromBackup(f), IF key THEN 1 ELSE 0)

\* a fallback that slices the backup from its old end
HistoryFromBackupOldest(days, f) ==
    LET b == get_backup_gold_data(f)
    IN  IF b.exc # "" THEN Raised(b.exc)
        ELSE IF b.value # <<>>
        THEN Returned([source |-> "backup",
                       history |-> IF Len(b.value) >= days
                                   THEN PySliceUpTo(b.value, days)
                                   ELSE b.value])
        ELSE Returned([error |-> "Failed to fetch gold price history and backup is unavailable."])

\* the fallback of get_gold_price_history
HistoryFromBackup(days, f) ==
    LET b == get_backup_gold_data(f)
    IN  IF b.exc # "" THEN Raised(b.exc)
        ELSE IF b.value # <<>>
        THEN Returned([source |-> "backup",
                       history |-> IF Len(b.value) >= days
                                   THEN PySliceFrom(b.value, -days)
                                   ELSE b.value])
        ELSE Returned([error |-> "Failed to fetch gold price history and backup is unavailable."])

\* get_gold_price_history(days); calls: the HTTP calls made
get_gold_price_history(days, key, api, f) ==
    IF key /\ api.kind = "ok" /\ api.list # <<>>
    THEN WithCalls(Returned([source |-> "live",
                             history |-> [i \in 1..Len(api.list) |->
                                             LivePoint(api.list[i])]]), 1)
    ELSE WithCalls(HistoryFromBackup(days, f), IF key THEN 1 ELSE 0)

(***************************************************************************)
(* Trend analyzer                                                          *)
(***************************************************************************)
ShortWindow == 7
LongWindow == 30

\* a trend taken over the leading points instead of the trailing ones
AnalyzeTrendLeading(h, p) ==
    IF h = <<>> \/ Len(h) < 2 THEN Returned(PctZero)
    ELSE LET recent == PySliceUpTo(h, p)
             start_price == recent[1].price
             end_price == recent[Len(recent)].price
         IN  IF start_price = 0 THEN Raised("ZeroDivisionError")
             ELSE Returned(Pct((end_price - start_price) * 100, start_price))

\* analyze_trend on a list of points
analyze_trend(h, p) ==
    IF h = <<>> \/ Len(h) < 2 THEN Returned(PctZero)
    ELSE LET recent == PySliceFrom(h, -p)
             start_price == recent[1].price
             end_price == recent[Len(recent)].price
         IN  IF start_price = 0 THEN Raised("ZeroDivisionError")
             ELSE Returned(Pct((end_price - start_price) * 100, start_price))

\* 30 if len(history) >= 30 else len(history)
LongPeriod(h) == IF Len(h) >= LongWindow THEN LongWindow ELSE Len(h)

\* trend_phrase: the three phrasings, the value in hundredths of a percent
trend_phrase(change) ==
    IF change.num * 10 > change.den
    THEN [phrase |-> "increased by", value |-> Format2(change)]
    ELSE IF change.num * 10 < -change.den
    THEN [phrase |-> "decreased by", value |-> Format2(Pct(Abs(change.num), change.den))]
    ELSE [phrase |-> "been relatively stable", value |-> 0]

NoTrendText == [short |-> [phrase |-> "No sufficient data", value |-> 0],
                long |-> [phrase |-> "No sufficient data", value |-> 0]]

generate_trend_text(h) ==
    IF h = <<>> THEN Returned(NoTrendText)
    ELSE LET short_term == analyze_trend(h, ShortWindow)
             long_term == analyze_trend(h, LongPeriod(h))
         IN  IF short_term.exc # "" THEN Raised(short_term.exc)
             ELSE IF long_term.exc # "" THEN Raised(long_term.exc)
             ELSE Returned([short |-> trend_phrase(short_term.value),
                            long |-> trend_phrase(long_term.value)])

(***************************************************************************)
(* Values of the variables a specification leaves alone                    *)
(***************************************************************************)
NoText == <<>>
NoReply == [sent |-> FALSE]
NoCall == [calls |-> 0, outcome |-> "none", text |-> NoText]
NoLlm == [detect |-> NoCall, intent |-> NoCall, answer |-> NoCall]
NoTrend == [computed |-> FALSE, short |-> 0, long |-> 0]
NoOp == [op |-> "idle", days |-> 0, api |-> ApiFail("none")]
NoRequest == [user_name |-> "", user_email |-> "", amount_inr |-> 0,
              quoted_price_inr_per_gram |-> 0, nudge_to_invest |-> FALSE]

EnvIdle == gemini = FALSE /\ goldKey = FALSE /\ file = MissingFile
AskIdle ==
    /\ pc = "idle"
    /\ question = NoText
    /\ is_gold_query = FALSE
    /\ classification = NoText
    /\ extra_data = EmptyDict
    /\ history = <<>>
    /\ trend_insight = NoTrend
    /\ ai_response = NoText
    /\ reply = NoReply
    /\ llm = NoLlm
    /\ excAt = "none"
FetchIdle == fetchOp = NoOp /\ fetchResult = Returned(<<>>)
TrendIdle ==
    /\ series = <<>>
    /\ period = 0
    /\ percent = [done |-> FALSE, exc |-> "", value |-> PctZero]
    /\ trendText = [done |-> FALSE, exc |-> "", value |-> NoTrendText]
BuyIdle ==
    /\ users = <<>>
    /\ transactions = <<>>
    /\ txReq = <<>>
    /\ lastReq = NoRequest
    /\ lastOutcome = 0
    /\ nbuys = 0
    /\ procs = <<>>

\* all sequences over S of length 0..n
SeqsUpTo(S, n) == UNION {[1..k -> S] : k \in 0..n}

(***************************************************************************)
(* The keyword classifier on its own                                       *)
(***************************************************************************)
MaxWords == 2

Q_CurrentPrice == <<"W", "h", "a", "t", "'", "s", " ", "t", "h", "e", " ", "c", "u", "r", "r", "e", "n", "t", " ", "p", "r", "i", "c", "e", " ", "o", "f", " ", "g", "o", "l", "d", "?">>
Q_History == <<"S", "h", "o", "w", " ", "m", "e", " ", "g", "o", "l", "d", " ", "h", "i", "s", "t", "o", "r", "y">>
Q_WillRise == <<"W", "i", "l", "l", " ", "g", "o", "l", "d", " ", "p", "r", "i", "c", "e", " ", "r", "i", "s", "e", "?">>
Q_TellMe == <<"T", "e", "l", "l", " ", "m", "e", " ", "a", "b", "o", "u", "t", " ", "g", "o", "l", "d">>
Q_GoldRate == <<"W", "h", "a", "t", " ", "i", "s", " ", "t", "h", "e", " ", "G", "O", "L", "D", " ", "r", "a", "t", "e", " ", "t", "o", "d", "a", "y", "?">>
Q_Silver == <<"H", "o", "w", " ", "i", "s", " ", "s", "i", "l", "v", "e", "r", " ", "d", "o", "i", "n", "g", "?">>
Q_Golden == <<"I", "s", " ", "a", " ", "g", "o", "l", "d", "e", "n", " ", "f", "u", "t", "u", "r", "e", " ", "n", "e", "a", "r", "?">>
Q_Xau == <<"W", "i", "l", "l", " ", "X", "A", "U", " ", "g", "o", " ", "u", "p", "?">>

ExampleQuestions == {Q_CurrentPrice, Q_History, Q_WillRise, Q_TellMe,
                     Q_GoldRate, Q_Silver, Q_Golden, Q_Xau}

Vocabulary == {K_price, <<"R", "a", "t", "e">>, K_current, <<"T", "O", "D", "A", "Y">>,
               K_history, K_past, <<"L", "a", "s", "t">>, K_trend,
               K_predict, K_forecast, K_future, <<"W", "i", "l", "l">>,
               <<"w", "i", "l", "l", "i", "n", "g">>, K_gold, <<"m", "e">>,
               <<"s", "i", "l", "v", "e", "r">>}

ClassifyQuestions ==
    ExampleQuestions \cup {JoinSpace(ws) : ws \in SeqsUpTo(Vocabulary, MaxWords) \ {<<>>}}

ClassifyInit ==
    /\ EnvIdle /\ FetchIdle /\ TrendIdle /\ BuyIdle
    /\ pc = "kw"
    /\ question \in ClassifyQuestions
    /\ is_gold_query = FALSE
    /\ classification = NoText
    /\ extra_data = EmptyDict
    /\ history = <<>>
    /\ trend_insight = NoTrend
    /\ ai_response = NoText
    /\ reply = NoReply
    /\ llm = NoLlm
    /\ excAt = "none"

\* _is_gold_by_keyword(question)
KeywordGold ==
    /\ pc = "kw"
    /\ is_gold_query' = _is_gold_by_keyword(question)
    /\ pc' = "kwgold"
    /\ UNCHANGED <<question, classification, extra_data, history, trend_insight,
                   ai_response, reply, llm, excAt>>
    /\ UNCHANGED <<envVars, fetchVars, trendVars, buyVars>>

\* _keyword_classify(question)
KeywordIntent ==
    /\ pc = "kwgold"
    /\ classification' = _keyword_classify(question)
    /\ pc' = "kwdone"
    /\ UNCHANGED <<question, is_gold_query, extra_data, history, trend_insight,
                   ai_response, reply, llm, excAt>>
    /\ UNCHANGED <<envVars, fetchVars, trendVars, buyVars>>

ClassifyNext == KeywordGold \/ KeywordIntent
SpecClassify == ClassifyInit /\ [][ClassifyNext]_vars

\* what the stated precedence gives, read off the lower-cased question
PrecedenceIntent(q) ==
    CASE AnyIn(PriceTerms, Lower(q)) -> "current_price"
      [] ~AnyIn(PriceTerms, Lower(q)) /\ AnyIn(HistoryTerms, Lower(q)) -> "history"
      [] ~AnyIn(PriceTerms \cup HistoryTerms, Lower(q))
            /\ AnyIn(PredictionTerms, Lower(q)) -> "prediction"
      [] OTHER -> "general_info"

IntentName(c) ==
    CASE c = I_current_price -> "current_price"
      [] c = I_history -> "history"
      [] c = I_prediction -> "prediction"
      [] c = I_general_info -> "general_info"
      [] OTHER -> "other"

\* C7 as amended: with no LLM, classifyIntent is a keyword substring match on
\* the lower-cased question, price terms before history terms before prediction
\* terms, general_info when nothing matches; it maps "What's the current price
\* of gold?" to current_price, "Show me gold history" to history, "Tell me about
\* gold" to general_info, and "Will gold price rise?", which holds the price
\* term "price", to current_price.
C7_KeywordPrecedence ==
    pc = "kwdone" =>
        /\ IntentName(classification) = PrecedenceIntent(question)
        /\ question = Q_CurrentPrice => classification = I_current_price
        /\ question = Q_History => classification = I_history
        /\ question = Q_TellMe => classification = I_general_info
        /\ question = Q_WillRise => classification = I_current_price

\* C7 witness: a question holding both a price term and a prediction term has
\* been classified
C7_Witness ==
    /\ pc = "kwdone"
    /\ AnyIn(PriceTerms, Lower(question))
    /\ AnyIn(PredictionTerms, Lower(question))
    /\ classification = I_current_price

\* C7 as stated: the same precedence, and "Will gold price rise?" is mapped to
\* prediction
C7_AsStated ==
    pc = "kwdone" =>
        /\ IntentName(classification) = PrecedenceIntent(question)
        /\ question = Q_CurrentPrice => classification = I_current_price
        /\ question = Q_History => classification = I_history
        /\ question = Q_TellMe => classification = I_general_info
        /\ question = Q_WillRise => classification = I_prediction

(***************************************************************************)
(* The trend helpers on their own                                          *)
(***************************************************************************)
MaxSeriesLen == 32
MaxPeriod == 31
MaxStride == 3

\* prices a series is drawn from: Rs 100, 110, 90, 100.10, 100.20, 99.90, 0
PriceTable == <<INR(100), INR(110), INR(90), INR(100) + 100, INR(100) + 200,
                INR(100) - 100, 0>>

\* the series of n daily points whose i-th price is entry o + i * k of the
\* table, cyclically
TableSeries(n, k, o) ==
    [i \in 1..n |-> Point(i, PriceTable[((o + i * k) % Len(PriceTable)) + 1])]

TrendSeries ==
    {TableSeries(n, k, o) : n \in 0..MaxSeriesLen, k \in 0..MaxStride,
                            o \in 0..(Len(PriceTable) - 1)}
    \cup {<<Point(1, 100), Point(2, 110)>>, <<Point(1, 100), Point(2, 90)>>}

TrendInit ==
    /\ EnvIdle /\ AskIdle /\ FetchIdle /\ BuyIdle
    /\ series \in TrendSeries
    /\ period = 0
    /\ percent = [done |-> FALSE, exc |-> "", value |-> PctZero]
    /\ trendText = [done |-> FALSE, exc |-> "", value |-> NoTrendText]

Done(r) == [done |-> TRUE, exc |-> r.exc, value |-> r.value]

\* analyze_trend(series, p)
AnalyzeTrend(p) ==
    /\ ~percent.done
    /\ period' = p
    /\ percent' = Done(analyze_trend(series, p))
    /\ UNCHANGED <<series, trendText>>
    /\ UNCHANGED <<envVars, askVars, fetchVars, buyVars>>

\* generate_trend_text(series)
GenerateTrendText ==
    /\ ~trendText.done
    /\ trendText' =
          LET r == generate_trend_text(series)
          IN  [done |-> TRUE, exc |-> r.exc,
               value |-> IF r.exc = "" THEN r.value ELSE NoTrendText]
    /\ UNCHANGED <<series, period, percent>>
    /\ UNCHANGED <<envVars, askVars, fetchVars, buyVars>>

TrendNext == (\E p \in 1..MaxPeriod : AnalyzeTrend(p)) \/ GenerateTrendText
SpecTrend == TrendInit /\ [][TrendNext]_vars

\* the two prices the claim names: those of the first and of the last of the
\* trailing min(p, length) points
ClaimStart(h, p) == h[Len(h) - Min(p, Len(h)) + 1].price
ClaimEnd(h) == h[Len(h)].price

\* the phrasing the claim gives a change of (e - s) / s * 100 percent, s > 0
ClaimPhrase(h, p) ==
    IF Len(h) < 2 THEN "been relatively stable"
    ELSE IF (ClaimEnd(h) - ClaimStart(h, p)) * 1000 > ClaimStart(h, p)
    THEN "increased by"
    ELSE IF (ClaimEnd(h) - ClaimStart(h, p)) * 1000 < -ClaimStart(h, p)
    THEN "decreased by"
    ELSE "been relatively stable"

\* C8: analyzeTrend(series, period), period >= 1, is 0.0 for fewer than 2
\* points; otherwise (end - start) / start * 100 for the first and last of the
\* trailing min(period, length) points (start not 0), whatever lies between:
\* [100, 110] gives 10 and [100, 90] gives -10 (period 7).  generateTrendText phrases the
\* 7-point and the 30-point (or full-length) result as increased above 0.1,
\* decreased below -0.1 and stable otherwise.
C8_TrendIsTwoPointChange ==
    /\ percent.done /\ Len(series) < 2 =>
          percent.exc = "" /\ percent.value = PctZero
    /\ percent.done /\ Len(series) >= 2 /\ ClaimStart(series, period) # 0 =>
          /\ percent.exc = ""
          /\ percent.value.den > 0
          /\ percent.value.num * ClaimStart(series, period)
                = (ClaimEnd(series) - ClaimStart(series, period)) * 100
                    * percent.value.den
    /\ percent.done /\ period = ShortWindow
          /\ series = <<Point(1, 100), Point(2, 110)>> =>
          percent.exc = "" /\ percent.value.num = 10 * percent.value.den
    /\ percent.done /\ period = ShortWindow
          /\ series = <<Point(1, 100), Point(2, 90)>> =>
          percent.exc = "" /\ percent.value.num = -10 * percent.value.den
    /\ trendText.done /\ trendText.exc = "" /\ series # <<>> =>
          /\ trendText.value.short.phrase = ClaimPhrase(series, ShortWindow)
          /\ trendText.value.long.phrase
                = ClaimPhrase(series, IF Len(series) >= 30 THEN 30 ELSE Len(series))

\* C8 witness: a trend over a window shorter than the series, whose inner
\* points differ from its ends, came out as a rise
C8_Witness ==
    /\ percent.done
    /\ percent.exc = ""
    /\ period >= 2
    /\ Len(series) > period + 1
    /\ percent.value.num > 0
    /\ \E i \in (Len(series) - period + 2)..(Len(series) - 1) :
          series[i].price > ClaimEnd(series)
    /\ series[1].price # ClaimStart(series, period)

(***************************************************************************)
(* The backup store and the price helpers on their own                     *)
(***************************************************************************)
MaxDate == 3
MaxBackupLen == 3
MaxDays == 4

FetchPrices == {INR(100), INR(110)}

FetchEntries ==
    {Point(d, p) : d \in 1..MaxDate, p \in FetchPrices}
    \cup {NoDatePoint(INR(100)), BadDatePoint(INR(100))}

FetchFiles ==
    {MissingFile, BadJsonFile, EmptyObjectFile, ObjectFile}
    \cup {ListFile(es) : es \in SeqsUpTo(FetchEntries, MaxBackupLen)}

\* Rs 6543.215 and Rs 6543.20, as the API reports them
PriceApiOutcomes ==
    {ApiFail(k) : k \in {"timeout", "http_error", "bad_json", "no_field", "bad_value"}}
    \cup {ApiPrice(6543215), ApiPrice(6543200)}

LiveLists == {<<[date |-> 2, price |-> 6543215]>>,
              <<[date |-> 2, price |-> 6543200], [date |-> 1, price |-> 6500004]>>}

HistoryApiOutcomes ==
    {ApiFail(k) : k \in {"timeout", "http_error", "bad_json", "no_field", "bad_value"}}
    \cup {ApiList(l) : l \in LiveLists \cup {<<>>}}

FetchInit ==
    /\ AskIdle /\ TrendIdle /\ BuyIdle /\ FetchIdle
    /\ gemini = FALSE
    /\ goldKey \in BOOLEAN
    /\ file \in FetchFiles

\* get_backup_gold_data()
LoadBackup ==
    /\ fetchOp.op = "idle"
    /\ fetchOp' = [op |-> "load", days |-> 0, api |-> ApiFail("none")]
    /\ fetchResult' = WithCalls(get_backup_gold_data(file), 0)
    /\ UNCHANGED <<envVars, askVars, trendVars, buyVars>>

\* get_live_gold_price(), the HTTP call ending as api
FetchPrice(api) ==
    /\ fetchOp.op = "idle"
    /\ fetchOp' = [op |-> "price", days |-> 0, api |-> api]
    /\ fetchResult' = get_live_gold_price(goldKey, api, file)
    /\ UNCHANGED <<envVars, askVars, trendVars, buyVars>>

\* get_gold_price_history(days), the HTTP call ending as api
FetchHistory(days, api) ==
    /\ fetchOp.op = "idle"
    /\ fetchOp' = [op |-> "history", days |-> days, api |-> api]
    /\ fetchResult' = get_gold_price_history(days, goldKey, api, file)
    /\ UNCHANGED <<envVars, askVars, trendVars, buyVars>>

FetchNext ==
    \/ LoadBackup
    \/ \E api \in PriceApiOutcomes : FetchPrice(api)
    \/ \E days \in 1..MaxDays, api \in HistoryApiOutcomes : FetchHistory(days, api)

SpecFetch == FetchInit /\ [][FetchNext]_vars

\* the snapshot as the claims describe it, read off the file
WellFormed(f) ==
    \/ f.kind = "list" /\ \A i \in 1..Len(f.entries) : f.entries[i].dk = "ok"
Malformed(f) == f.kind # "missing" /\ ~WellFormed(f)
AscendingByDate(h) == \A i \in 1..(Len(h) - 1) : h[i].date <= h[i + 1].date
Count(e, h) == Cardinality({i \in 1..Len(h) : h[i] = e})
IsPermutation(a, b) ==
    /\ Len(a) = Len(b)
    /\ \A i \in 1..Len(a) : Count(a[i], a) = Count(a[i], b)

\* h holds the n latest-dated entries of es: it takes nothing es has not, and
\* leaves out no entry dated after its earliest
LatestOf(h, es, n) ==
    /\ Len(h) = n
    /\ AscendingByDate(h)
    /\ \A i \in 1..Len(h) : Count(h[i], h) <= Count(h[i], es)
    /\ \A j \in 1..Len(es) :
          es[j].date > h[1].date => Count(es[j], h) = Count(es[j], es)

\* the live result was used: the credential is there and the call gave the data
LiveUsable ==
    /\ goldKey
    /\ fetchOp.api.kind = "ok"
    /\ fetchOp.op = "history" => fetchOp.api.list # <<>>

\* C4 as stated: loadBackup never propagates an exception; a missing or
\* malformed snapshot gives the empty sequence, any other snapshot all its
\* entries sorted ascending by date.
C4_LoadNeverRaises ==
    fetchOp.op = "load" =>
        /\ fetchResult.exc = ""
        /\ file.kind = "missing" \/ Malformed(file) => fetchResult.value = <<>>
        /\ WellFormed(file) =>
              /\ IsPermutation(fetchResult.value, file.entries)
              /\ AscendingByDate(fetchResult.value)

\* C4: the snapshots the code does read are returned whole and sorted
C4_Witness ==
    /\ fetchOp.op = "load"
    /\ fetchResult.exc = ""
    /\ Len(fetchResult.value) >= 2
    /\ ~AscendingByDate(file.entries)

\* C3: for getCurrentPrice and getHistory(days), days >= 1: a result tagged
\* live occurs only when the credential is present and the call succeeded; at
\* most one network call is made and none without the credential; when the
\* live result is not used and the backup loads, a non-empty backup gives a
\* result tagged backup carrying the price of a latest-dated entry,
\* respectively exactly the last min(days, length) entries in ascending date
\* order, and an empty backup gives an error-tagged value without the
\* current_price_inr_per_gram (respectively history) field.
C3_FallbackChain ==
    fetchOp.op \in {"price", "history"} =>
        /\ fetchResult.calls = (IF goldKey THEN 1 ELSE 0)
        /\ fetchResult.exc # "" => ~LiveUsable /\ Malformed(file)
        /\ fetchResult.exc = "" /\ HasKey(fetchResult.value, "source") =>
              (fetchResult.value.source = "live" <=> LiveUsable)
        /\ LiveUsable => /\ fetchResult.exc = ""
                         /\ HasKey(fetchResult.value, "source")
                         /\ fetchResult.value.source = "live"
        /\ ~LiveUsable /\ WellFormed(file) /\ file.entries # <<>> =>
              /\ fetchResult.exc = ""
              /\ HasKey(fetchResult.value, "source")
              /\ fetchResult.value.source = "backup"
              /\ fetchOp.op = "price" =>
                    \E i \in 1..Len(file.entries) :
                        /\ fetchResult.value.current_price_inr_per_gram
                              = file.entries[i].price
                        /\ \A j \in 1..Len(file.entries) :
                              /\ file.entries[j].date <= file.entries[i].date
                              /\ file.entries[j].date = file.entries[i].date => j <= i
              /\ fetchOp.op = "history" =>
                    LatestOf(fetchResult.value.history, file.entries,
                             Min(fetchOp.days, Len(file.entries)))
        /\ ~LiveUsable /\ (file.kind \in {"missing", "badjson", "emptyobject"}
                            \/ file = ListFile(<<>>)) =>
              /\ fetchResult.exc = ""
              /\ DOMAIN fetchResult.value = {"error"}

\* C3 witness: a history of fewer days than the unsorted backup holds was
\* served from the backup after the one network call failed
C3_Witness ==
    /\ fetchOp.op = "history"
    /\ goldKey
    /\ fetchOp.api.kind = "timeout"
    /\ fetchResult.exc = ""
    /\ HasKey(fetchResult.value, "source")
    /\ fetchResult.value.source = "backup"
    /\ fetchOp.days >= 2
    /\ Len(file.entries) > fetchOp.days
    /\ ~AscendingByDate(file.entries)

(***************************************************************************)
(* POST /ask-kuber                                                         *)
(***************************************************************************)
HistoryDays == 30
PredictionDays == 90

\* What one LLM call does: it raises (ok = FALSE) or returns text.
LlmFail == [ok |-> FALSE, text |-> NoText]
LlmText(t) == [ok |-> TRUE, text |-> t]
Called(o) == [calls |-> 1, outcome |-> IF o.ok THEN "ok" ELSE "fail", text |-> o.text]

\* a detection that drops the keyword result when the call fails
DetectResultDropsKeyword(kw, o) ==
    IF o.ok THEN Contains(K_yes, Lower(Strip(o.text))) ELSE FALSE

\* lines 139-147: the keyword result, overridden by a call that succeeds
DetectResult(kw, o) ==
    IF o.ok THEN Contains(K_yes, Lower(Strip(o.text))) ELSE kw

\* lines 152-158: the keyword result, overridden by a call that succeeds
IntentResult(kw, o) == IF o.ok THEN Lower(Strip(o.text)) ELSE kw

\* lines 161-170: the data fetched for the intent; an exception of a helper
\* leaves the empty dict
FetchData(c, key, apiP, apiH, f) ==
    IF Contains(I_current_price, c)
    THEN LET r == get_live_gold_price(key, apiP, f)
         IN  IF r.exc # "" THEN EmptyDict ELSE r.value
    ELSE IF Contains(I_history, c)
    THEN LET r == get_gold_price_history(HistoryDays, key, apiH, f)
         IN  IF r.exc # "" THEN EmptyDict ELSE r.value
    ELSE IF Contains(I_prediction, c)
    THEN LET r1 == get_live_gold_price(key, apiP, f)
             r2 == get_gold_price_history(PredictionDays, key, apiH, f)
         IN  IF r1.exc # "" \/ r2.exc # "" THEN EmptyDict
             ELSE [current |-> r1.value, history |-> r2.value]
    ELSE EmptyDict

Insight(short, long) ==
    [computed |-> TRUE, short |-> Format2(short), long |-> Format2(long)]

\* lines 174-177 on a list of points
TrendOfList(h) ==
    IF h = <<>> THEN Returned(NoTrend)
    ELSE LET short_pct == analyze_trend(h, ShortWindow)
             long_pct == analyze_trend(h, LongPeriod(h))
         IN  IF short_pct.exc # "" THEN Raised(short_pct.exc)
             ELSE IF long_pct.exc # "" THEN Raised(long_pct.exc)
             ELSE Returned(Insight(short_pct.value, long_pct.value))

\* lines 174-177 on a dict, which is what extra_data["history"] is for the
\* prediction intent: len(d) counts its keys, and d[-7:] raises (TypeError,
\* KeyError from Python 3.12 on)
TrendOfDict(d) ==
    IF Cardinality(DOMAIN d) < 2 THEN Returned(Insight(PctZero, PctZero))
    ELSE Raised("TypeError")

\* lines 173-177: history and trend_insight, or the exception raised
TrendStep(ed, f) ==
    IF HasKey(ed, "history")
    THEN IF HasKey(ed, "current")
         THEN [exc |-> TrendOfDict(ed.history).exc, history |-> ed.history,
               trend |-> TrendOfDict(ed.history).value]
         ELSE [exc |-> TrendOfList(ed.history).exc, history |-> ed.history,
               trend |-> TrendOfList(ed.history).value]
    ELSE LET b == get_backup_gold_data(f)
         IN  IF b.exc # "" THEN [exc |-> b.exc, history |-> <<>>, trend |-> NoTrend]
             ELSE [exc |-> TrendOfList(b.value).exc, history |-> b.value,
                   trend |-> TrendOfList(b.value).value]

\* the fixed texts of the replies
RefusalAnswer == "I can only help you with gold investment queries."
RefusalInsight == "Please ask me a question about gold."
FallbackAnswer == "Right now I'm unable to fetch live AI insights due to an API limit or server issue. The data coming is hard-coded and will resume the live response as soon as the API limit gets refreshed"
ShortFallbackAnswer == "Right now I'm unable to fetch live AI insights due to an API limit or server issue."
Tip == "But here's a helpful tip: Gold is a safe-haven asset. On Simplify Money, you can instantly buy or sell 24K, 99.9% pure digital gold."
SimplifySuggestion == "Simplify Money makes digital gold investment effortless: ..."
NudgeText == "Would you like me to help you invest in digital gold on Simplify Money now?"

\* A text of a reply: a fixed text or characters taken from the LLM.
Fixed(t) == [fixed |-> t, text |-> NoText]
FromLlm(t) == [fixed |-> "", text |-> t]

\* lines 211-212: the trend text after the insights, a space between them
\* unless there is nothing before it (strip)
WithTrend(body, trend) ==
    [body |-> body,
     joint |-> IF ~trend.computed \/ (body.fixed = "" /\ body.text = NoText)
               THEN "" ELSE " ",
     trend |-> trend]

\* lines 194-228
ComposeReply(gold, ai, trend) ==
    LET parts == SplitBlankOnce(ai)
    IN  [sent |-> TRUE,
         is_gold_query |-> gold,
         answer |-> IF ai # NoText THEN FromLlm(_clean_text(parts[1]))
                    ELSE IF ~gold THEN Fixed(RefusalAnswer)
                    ELSE Fixed(FallbackAnswer),
         extra_insights |->
             WithTrend(IF ai # NoText
                       THEN FromLlm(_clean_text(IF Len(parts) > 1 THEN parts[2]
                                                ELSE NoText))
                       ELSE IF ~gold THEN Fixed(RefusalInsight)
                       ELSE Fixed(Tip),
                       trend),
         simplify_suggestion |-> SimplifySuggestion,
         nudge_text |-> NudgeText]

\* lines 230-258: the reply of the top-level except branch, or the exception
\* that leaves it
FallbackReply(q, f) ==
    LET b == get_backup_gold_data(f)
        t == TrendOfList(b.value)
    IN  IF b.exc # "" THEN Raised(b.exc)
        ELSE IF t.exc # "" THEN Raised(t.exc)
        ELSE Returned([sent |-> TRUE,
                       is_gold_query |-> _is_gold_by_keyword(q),
                       answer |-> Fixed(ShortFallbackAnswer),
                       extra_insights |->
                           [body |-> Fixed(Tip), joint |-> "", trend |-> t.value],
                       simplify_suggestion |-> SimplifySuggestion,
                       nudge_text |-> NudgeText])

\* the snapshots a request may meet
UnsortedFile == ListFile(<<Point(3, INR(110)), Point(1, INR(100)), Point(2, INR(90))>>)
NoDateFile == ListFile(<<Point(1, INR(100)), NoDatePoint(INR(110))>>)
BadDateFile == ListFile(<<BadDatePoint(INR(100))>>)
ZeroStartFile == ListFile(<<Point(1, 0), Point(2, INR(100))>>)
LongFile == ListFile(TableSeries(MaxSeriesLen, 1, 0))

AskFiles == {MissingFile, BadJsonFile, ObjectFile, ListFile(<<>>), UnsortedFile,
             NoDateFile, BadDateFile, ZeroStartFile, LongFile}

AskQuestions == ExampleQuestions

T_yes == <<" ", "Y", "e", "s", ".", "\n">>
T_no == <<"n", "o">>
T_history == <<" ", "H", "i", "s", "t", "o", "r", "y", "\n">>
T_answer == <<"G", "o", "l", "d", " ", "i", "s", " ", "u", "p", ".", "\n", "\n", "B", "u", "y", " ", " ", "n", "o", "w", ".", "\n", "S", "t", "a", "y", " ", "s", "a", "f", "e", ".", "\n", "\n", "I", "n", "v", "e", "s", "t", "!">>
T_oneline == <<"\n", "G", "o", "l", "d", " ", "i", "s", "\n", "s", "t", "e", "a", "d", "y", ".", " ">>
T_blank == <<" ", " ", "\n">>

DetectOutcomes == {LlmFail, LlmText(T_yes), LlmText(T_no)}
IntentOutcomes == {LlmFail, LlmText(I_current_price), LlmText(T_history),
                   LlmText(I_prediction), LlmText(I_general_info)}
AnswerOutcomes == {LlmFail, LlmText(T_answer), LlmText(T_oneline), LlmText(T_blank)}
AskPriceApi == {ApiFail("timeout"), ApiPrice(6543215)}
AskHistoryApi == {ApiFail("http_error"),
                  ApiList(<<[date |-> 1, price |-> 6500004],
                            [date |-> 2, price |-> 6543215]>>)}

AskInit ==
    /\ FetchIdle /\ TrendIdle /\ BuyIdle
    /\ gemini \in BOOLEAN
    /\ goldKey \in BOOLEAN
    /\ file \in AskFiles
    /\ pc = "detect"
    /\ question \in AskQuestions
    /\ is_gold_query = FALSE
    /\ classification = NoText
    /\ extra_data = EmptyDict
    /\ history = <<>>
    /\ trend_insight = NoTrend
    /\ ai_response = NoText
    /\ reply = NoReply
    /\ llm = NoLlm
    /\ excAt = "none"

\* lines 139-147: gold detection
AskDetect ==
    /\ pc = "detect"
    /\ \/ /\ ~gemini
          /\ is_gold_query' = _is_gold_by_keyword(question)
          /\ llm' = llm
       \/ /\ gemini
          /\ \E o \in DetectOutcomes :
                /\ is_gold_query' = DetectResult(_is_gold_by_keyword(question), o)
                /\ llm' = [llm EXCEPT !.detect = Called(o)]
    /\ pc' = IF is_gold_query' THEN "classify" ELSE "answer"
    /\ UNCHANGED <<question, classification, extra_data, history, trend_insight,
                   ai_response, reply, excAt>>
    /\ UNCHANGED <<envVars, fetchVars, trendVars, buyVars>>

\* lines 152-158: intent classification
AskClassify ==
    /\ pc = "classify"
    /\ \/ /\ ~gemini
          /\ classification' = _keyword_classify(question)
          /\ llm' = llm
       \/ /\ gemini
          /\ \E o \in IntentOutcomes :
                /\ classification' = IntentResult(_keyword_classify(question), o)
                /\ llm' = [llm EXCEPT !.intent = Called(o)]
    /\ pc' = "fetch"
    /\ UNCHANGED <<question, is_gold_query, extra_data, history, trend_insight,
                   ai_response, reply, excAt>>
    /\ UNCHANGED <<envVars, fetchVars, trendVars, buyVars>>

\* lines 161-170: the price data of the intent
AskFetch ==
    /\ pc = "fetch"
    /\ \E apiP \in AskPriceApi, apiH \in AskHistoryApi :
          extra_data' = FetchData(classification, goldKey, apiP, apiH, file)
    /\ pc' = "trend"
    /\ UNCHANGED <<question, is_gold_query, classification, history, trend_insight,
                   ai_response, reply, llm, excAt>>
    /\ UNCHANGED <<envVars, fetchVars, trendVars, buyVars>>

\* lines 173-177: the history and its trend
AskTrend ==
    /\ pc = "trend"
    /\ LET t == TrendStep(extra_data, file)
       IN  /\ history' = t.history
           /\ trend_insight' = t.trend
           /\ pc' = IF t.exc # "" THEN "except" ELSE "answer"
           /\ excAt' = IF t.exc # "" THEN "trend" ELSE excAt
    /\ UNCHANGED <<question, is_gold_query, classification, extra_data,
                   ai_response, reply, llm>>
    /\ UNCHANGED <<envVars, fetchVars, trendVars, buyVars>>

\* lines 180-191: the LLM answer
AskAnswer ==
    /\ pc = "answer"
    /\ \/ /\ ~(gemini /\ is_gold_query)
          /\ ai_response' = NoText
          /\ llm' = llm
       \/ /\ gemini /\ is_gold_query
          /\ \E o \in AnswerOutcomes :
                /\ ai_response' = IF o.ok THEN Strip(o.text) ELSE NoText
                /\ llm' = [llm EXCEPT !.answer = Called(o)]
    /\ pc' = "compose"
    /\ UNCHANGED <<question, is_gold_query, classification, extra_data, history,
                   trend_insight, reply, excAt>>
    /\ UNCHANGED <<envVars, fetchVars, trendVars, buyVars>>

\* lines 194-228: the reply
AskCompose ==
    /\ pc = "compose"
    /\ reply' = ComposeReply(is_gold_query, ai_response, trend_insight)
    /\ pc' = "done"
    /\ UNCHANGED <<question, is_gold_query, classification, extra_data, history,
                   trend_insight, ai_response, llm, excAt>>
    /\ UNCHANGED <<envVars, fetchVars, trendVars, buyVars>>

\* lines 230-258: the top-level except branch; an exception raised inside it
\* leaves the handler
AskFallback ==
    /\ pc = "except"
    /\ LET r == FallbackReply(question, file)
       IN  /\ reply' = IF r.exc = "" THEN r.value ELSE reply
           /\ pc' = IF r.exc = "" THEN "done" ELSE "raised"
           /\ excAt' = IF r.exc = "" THEN excAt ELSE "fallback"
    /\ UNCHANGED <<question, is_gold_query, classification, extra_data, history,
                   trend_insight, ai_response, llm>>
    /\ UNCHANGED <<envVars, fetchVars, trendVars, buyVars>>

AskNext ==
    \/ AskDetect
    \/ AskClassify
    \/ AskFetch
    \/ AskTrend
    \/ AskAnswer
    \/ AskCompose
    \/ AskFallback

SpecAsk == AskInit /\ [][AskNext]_vars

\* a reply with every field of KuberResponse
WellFormedReply(r) ==
    /\ r.sent
    /\ DOMAIN r = {"sent", "is_gold_query", "answer", "extra_insights",
                   "simplify_suggestion", "nudge_text"}
    /\ r.is_gold_query \in BOOLEAN

\* C1 as stated: whatever the question and the collaborators do, the handler
\* ends by returning a well-formed reply; no exception leaves it, the top-level
\* fallback branch included.
C1_NeverSurfacesError ==
    /\ pc # "raised"
    /\ pc = "done" => WellFormedReply(reply)

\* C1: the fallback branch does answer when the backup can be read
C1_Witness ==
    /\ pc = "done"
    /\ excAt = "trend"
    /\ WellFormedReply(reply)

\* the backup can be read and its trend computed
SaneBackup ==
    /\ get_backup_gold_data(file).exc = ""
    /\ TrendOfList(get_backup_gold_data(file).value).exc = ""

\* the LLM is there and none of its calls failed or came back empty
LlmAllOk ==
    /\ gemini
    /\ llm.detect.outcome = "ok"
    /\ llm.intent.outcome = "ok"
    /\ llm.answer.outcome # "fail"
    /\ llm.answer.outcome = "ok" => Strip(llm.answer.text) # NoText

\* C2 as stated: for a gold-related question of any intent, when the LLM is
\* available and its calls succeed with non-empty text, the answer is the
\* normalized text before the first blank line and extra_insights the
\* normalized rest followed by the trend text when one was computed; the
\* fixed fallback answer is not produced.  (Stated here for a backup that
\* reads and has a trend: the claim fails even then.)
C2_LlmAnswerIsUsed ==
    pc \in {"done", "raised"} /\ is_gold_query /\ LlmAllOk /\ SaneBackup =>
        /\ pc = "done"
        /\ llm.answer.outcome = "ok"
        /\ reply.answer
              = FromLlm(_clean_text(SplitBlankOnce(Strip(llm.answer.text))[1]))
        /\ reply.extra_insights.body.fixed = ""
        /\ reply.extra_insights.trend = trend_insight

\* C2: on the intents other than prediction the LLM answer is split at the
\* blank line and the trend appended
C2_Witness ==
    /\ pc = "done"
    /\ is_gold_query
    /\ LlmAllOk
    /\ llm.answer.text = T_answer
    /\ reply.answer = FromLlm(<<"G", "o", "l", "d", " ", "i", "s", " ", "u", "p", ".">>)
    /\ reply.extra_insights.trend.computed

\* the maximal runs of \w characters of s
RECURSIVE WordRuns(_, _, _)
WordRuns(s, cur, acc) ==
    IF s = <<>> THEN (IF cur = <<>> THEN acc ELSE acc \cup {cur})
    ELSE IF ~IsWordChar(Head(s))
         THEN WordRuns(Tail(s), <<>>, IF cur = <<>> THEN acc ELSE acc \cup {cur})
         ELSE WordRuns(Tail(s), Append(cur, Head(s)), acc)

\* the question holds gold or xau as a whole word, in any case
WholeWordGold(q) ==
    \E w \in WordRuns(Lower(q), <<>>, {}) : w \in {K_gold, K_xau}

AfterDetect == pc # "detect"
AfterClassify == is_gold_query /\ pc \notin {"detect", "classify"}

\* C9: each classifier step makes at most one LLM call, none without an LLM;
\* when the call fails the keyword result is kept and processing goes on:
\* is_gold_query is then the case-insensitive whole-word match on gold /
\* digital gold / xau and the intent the keyword precedence's.  A failed
\* detection call prevents neither the intent call nor the answer call.
C9_KeywordResultRetained ==
    /\ llm.detect.calls <= 1 /\ llm.intent.calls <= 1 /\ llm.answer.calls <= 1
    /\ ~gemini => llm = NoLlm
    /\ AfterDetect /\ llm.detect.outcome # "ok" =>
          is_gold_query = WholeWordGold(question)
    /\ AfterClassify /\ llm.intent.outcome # "ok" =>
          IntentName(classification) = PrecedenceIntent(question)
    /\ AfterDetect /\ gemini => llm.detect.calls = 1
    /\ AfterClassify /\ gemini => llm.intent.calls = 1
    /\ gemini /\ is_gold_query /\ (pc = "compose" \/ (pc = "done" /\ excAt = "none"))
          => llm.answer.calls = 1
    /\ excAt \in {"none", "trend", "fallback"}

\* C9 witness: the detection call and the intent call both failed, and the
\* answer call was still made and the reply sent
C9_Witness ==
    /\ pc = "done"
    /\ llm.detect.outcome = "fail"
    /\ llm.intent.outcome = "fail"
    /\ llm.answer.calls = 1
    /\ is_gold_query
    /\ excAt = "none"

(***************************************************************************)
(* POST /buy-gold and the store                                            *)
(***************************************************************************)
MinAmount == 10
MaxPurchases == 3
MaxProcs == 2

Request(n, e, a, q, g) ==
    [user_name |-> n, user_email |-> e, amount_inr |-> a,
     quoted_price_inr_per_gram |-> q, nudge_to_invest |-> g]

\* amounts in rupees, quoted prices in thousandths of a rupee
BuyRequests ==
    {Request(n, e, a, q, g) :
        n \in {"Asha", "Ravi"}, e \in {"a@x.in", "b@x.in"},
        a \in {5, 9, 10}, q \in {0, 6543215}, g \in BOOLEAN}

\* a validation that lets an amount equal to the minimum minus one through
ValidateOffByOne(req) ==
    IF ~req.nudge_to_invest THEN "400 nudge"
    ELSE IF req.amount_inr < MinAmount - 1 THEN "400 minimum"
    ELSE "ok"

\* lines 263-269: the two rejections, else "ok"
Validate(req) ==
    IF ~req.nudge_to_invest THEN "400 nudge"
    ELSE IF req.amount_inr < MinAmount THEN "400 minimum"
    ELSE "ok"

\* line 271: round(amount / price, 4), in ten-thousandths of a gram
\* (price not 0)
Grams(req) ==
    LET a == req.amount_inr * 1000
        q == req.quoted_price_inr_per_gram
    IN  RoundDiv((a \div GCD(a, q)) * 10000, q \div GCD(a, q))

\* line 273: the id of the first User row with this email, 0 when none
LookupUser(us, email) ==
    IF \E i \in 1..Len(us) : us[i].email = email
    THEN us[CHOOSE i \in 1..Len(us) :
                /\ us[i].email = email
                /\ \A j \in 1..(i - 1) : us[j].email # email].id
    ELSE 0

\* an insert into a users table whose email column has no unique index
AddUserNoUniqueIndex(us, name, email) ==
    Returned(Append(us, [id |-> Len(us) + 1, name |-> name, email |-> email]))

\* lines 275-278 and models.py line 10: the insert of a User row, refused by
\* the unique index on email
AddUser(us, name, email) ==
    IF \E i \in 1..Len(us) : us[i].email = email
    THEN Raised("IntegrityError")
    ELSE Returned(Append(us, [id |-> Len(us) + 1, name |-> name, email |-> email]))

\* a Transaction row that points at the newest User row
AddTransactionToNewest(txs, uid, req, us) ==
    Append(txs, [id |-> Len(txs) + 1,
                 user_id |-> Len(us),
                 amount_inr |-> req.amount_inr,
                 grams_purchased |-> Grams(req),
                 gold_price_per_gram |-> Round2(req.quoted_price_inr_per_gram)])

\* lines 280-288: the insert of a Transaction row
AddTransaction(txs, uid, req, us) ==
    Append(txs, [id |-> Len(txs) + 1,
                 user_id |-> uid,
                 amount_inr |-> req.amount_inr,
                 grams_purchased |-> Grams(req),
                 gold_price_per_gram |-> Round2(req.quoted_price_inr_per_gram)])

\* the status the handler ends with before it touches the store: 400 for a
\* rejection, 500 for the ZeroDivisionError of line 271, else 0
EarlyStatus(req) ==
    IF Validate(req) # "ok" THEN 400
    ELSE IF req.quoted_price_inr_per_gram = 0 THEN 500
    ELSE 0

\* the whole handler on a store no other request touches
HandleBuy(us, txs, req) ==
    IF EarlyStatus(req) # 0
    THEN [status |-> EarlyStatus(req), users |-> us, transactions |-> txs]
    ELSE IF LookupUser(us, req.user_email) # 0
    THEN [status |-> 200, users |-> us,
          transactions |-> AddTransaction(txs, LookupUser(us, req.user_email), req, us)]
    ELSE LET added == AddUser(us, req.user_name, req.user_email)
         IN  IF added.exc # ""
             THEN [status |-> 500, users |-> us, transactions |-> txs]
             ELSE [status |-> 200, users |-> added.value,
                   transactions |->
                       AddTransaction(txs, Len(added.value), req, added.value)]

BuyInit ==
    /\ EnvIdle /\ AskIdle /\ FetchIdle /\ TrendIdle
    /\ BuyIdle

\* buy_digital_gold, one request after another
BuyGold(req) ==
    /\ nbuys < MaxPurchases
    /\ LET r == HandleBuy(users, transactions, req)
       IN  /\ users' = r.users
           /\ transactions' = r.transactions
           /\ lastOutcome' = r.status
           /\ txReq' = IF r.status = 200 THEN Append(txReq, [req |-> req, proc |-> 0])
                       ELSE txReq
    /\ lastReq' = req
    /\ nbuys' = nbuys + 1
    /\ UNCHANGED procs
    /\ UNCHANGED <<envVars, askVars, fetchVars, trendVars>>

BuyNext == \E req \in BuyRequests : BuyGold(req)
SpecBuy == BuyInit /\ [][BuyNext]_vars

\* the store a purchase leaves: no row is dropped or changed
RowsKept ==
    /\ Len(users') >= Len(users)
    /\ Len(transactions') >= Len(transactions)
    /\ \A i \in 1..Len(users) : users'[i] = users[i]
    /\ \A i \in 1..Len(transactions) : transactions'[i] = transactions[i]

Rejectable(req) == ~req.nudge_to_invest \/ req.amount_inr < 10

\* C5: a purchase with nudge_to_invest false, or with amount_inr < 10, is
\* answered 400 whatever its other fields, and leaves the store as it was;
\* so every persisted Transaction has amount_inr >= 10 and stems from a
\* request with nudge_to_invest true.
C5_RejectedPurchases ==
    /\ [](\A i \in 1..Len(transactions) :
            /\ transactions[i].amount_inr >= 10
            /\ txReq[i].req.nudge_to_invest
            /\ txReq[i].req.amount_inr = transactions[i].amount_inr)
    /\ [][nbuys' = nbuys + 1 /\ Rejectable(lastReq') =>
            /\ lastOutcome' = 400
            /\ users' = users
            /\ transactions' = transactions]_vars

\* C5 witness: a purchase of Rs 9 with the nudge accepted has been answered
\* 400 after an earlier one had been stored
C5_Witness ==
    /\ lastOutcome = 400
    /\ lastReq.amount_inr = 9
    /\ lastReq.nudge_to_invest
    /\ lastReq.quoted_price_inr_per_gram # 0
    /\ Len(transactions) = 1

AcceptedEmails == {txReq[i].req.user_email : i \in 1..Len(txReq)}

\* C6: after purchases handled one after another, the User rows are as many
\* as the distinct emails of the accepted purchases, the Transaction rows as
\* many as the accepted purchases, and each Transaction's user_id is the id
\* of the one User row with its request's email; no step changes or drops a
\* row.
C6_RowsMatchAcceptedPurchases ==
    /\ [](/\ Len(users) = Cardinality(AcceptedEmails)
          /\ Len(transactions) = Len(txReq)
          /\ \A i \in 1..Len(transactions) :
                \E u \in 1..Len(users) :
                    /\ users[u].id = transactions[i].user_id
                    /\ users[u].email = txReq[i].req.user_email
                    /\ \A v \in 1..Len(users) :
                          users[v].email = users[u].email => v = u)
    /\ [][RowsKept]_vars

\* C6 witness: two accepted purchases from one new email, after another
\* user's, left one more User row and two Transaction rows of that user
C6_Witness ==
    /\ Len(users) = 2
    /\ Len(transactions) = 3
    /\ txReq[1].req.user_email # txReq[2].req.user_email
    /\ txReq[2].req.user_email = txReq[3].req.user_email
    /\ transactions[2].user_id = 2
    /\ transactions[3].user_id = 2

(***************************************************************************)
(* POST /buy-gold, requests served at the same time                        *)
(***************************************************************************)
\* Each request runs the handler's statements in order on its own session;
\* every db.commit() is one step on the shared store.
ConcRequests ==
    {Request(n, e, a, 6543215, TRUE) :
        n \in {"Asha", "Ravi"}, e \in {"a@x.in", "b@x.in"}, a \in {9, 10}}

Proc(at, req, uid, missed, status) ==
    [at |-> at, req |-> req, user_id |-> uid, missed |-> missed, status |-> status]

ConcInit ==
    /\ EnvIdle /\ AskIdle /\ FetchIdle /\ TrendIdle
    /\ users = <<>>
    /\ transactions = <<>>
    /\ txReq = <<>>
    /\ lastReq = NoRequest
    /\ lastOutcome = 0
    /\ nbuys = 0
    /\ procs = [p \in 1..MaxProcs |-> Proc("idle", NoRequest, 0, FALSE, 0)]

\* lines 263-271: the request arrives, is validated and priced
Receive(p, req) ==
    /\ procs[p].at = "idle"
    /\ procs' = [procs EXCEPT ![p] =
                    IF EarlyStatus(req) # 0
                    THEN Proc("done", req, 0, FALSE, EarlyStatus(req))
                    ELSE Proc("lookup", req, 0, FALSE, 0)]
    /\ nbuys' = nbuys + 1
    /\ UNCHANGED <<users, transactions, txReq, lastReq, lastOutcome>>
    /\ UNCHANGED <<envVars, askVars, fetchVars, trendVars>>

\* line 273: the query for the user
Lookup(p) ==
    /\ procs[p].at = "lookup"
    /\ procs' = [procs EXCEPT ![p] =
                    IF LookupUser(users, procs[p].req.user_email) # 0
                    THEN Proc("insert_tx", procs[p].req,
                              LookupUser(users, procs[p].req.user_email), FALSE, 0)
                    ELSE Proc("insert_user", procs[p].req, 0, TRUE, 0)]
    /\ UNCHANGED <<users, transactions, txReq, lastReq, lastOutcome, nbuys>>
    /\ UNCHANGED <<envVars, askVars, fetchVars, trendVars>>

\* lines 275-278: the new user is committed, or the commit raises and the
\* request ends with the unhandled IntegrityError
InsertUser(p) ==
    /\ procs[p].at = "insert_user"
    /\ LET added == AddUser(users, procs[p].req.user_name, procs[p].req.user_email)
       IN  IF added.exc # ""
           THEN /\ users' = users
                /\ procs' = [procs EXCEPT ![p] = Proc("done", procs[p].req, 0, TRUE, 500)]
           ELSE /\ users' = added.value
                /\ procs' = [procs EXCEPT ![p] =
                                Proc("insert_tx", procs[p].req, Len(added.value), TRUE, 0)]
    /\ UNCHANGED <<transactions, txReq, lastReq, lastOutcome, nbuys>>
    /\ UNCHANGED <<envVars, askVars, fetchVars, trendVars>>

\* lines 280-295: the transaction is committed and the request answered
InsertTransaction(p) ==
    /\ procs[p].at = "insert_tx"
    /\ transactions' = AddTransaction(transactions, procs[p].user_id, procs[p].req, users)
    /\ txReq' = Append(txReq, [req |-> procs[p].req, proc |-> p])
    /\ procs' = [procs EXCEPT ![p] =
                    Proc("done", procs[p].req, procs[p].user_id, procs[p].missed, 200)]
    /\ UNCHANGED <<users, lastReq, lastOutcome, nbuys>>
    /\ UNCHANGED <<envVars, askVars, fetchVars, trendVars>>

ConcNext ==
    \E p \in 1..MaxProcs :
        \/ \E req \in ConcRequests : Receive(p, req)
        \/ Lookup(p)
        \/ InsertUser(p)
        \/ InsertTransaction(p)

SpecBuyConc == ConcInit /\ [][ConcNext]_vars

\* p and q are first-time purchases with one email that both looked the user
\* up before either committed it, and both have ended
RacedAndDone(p, q) ==
    /\ p # q
    /\ procs[p].at = "done" /\ procs[q].at = "done"
    /\ procs[p].missed /\ procs[q].missed
    /\ procs[p].req.user_email = procs[q].req.user_email

RowsWithEmail(e) == {i \in 1..Len(users) : users[i].email = e}
RowsOf(p) == {i \in 1..Len(txReq) : txReq[i].proc = p}

\* C10 as amended: the lookup-or-create is not atomic, but email is unique:
\* when two first-time purchases with one email both look the user up before
\* either commits it, one User row with that email exists, never two; the
\* purchase whose insert comes second ends with an unhandled IntegrityError
\* (status 500) and persists no Transaction, so at most one of the two
\* completes, with its one Transaction.
C10_RaceFailsSecondPurchase ==
    /\ \A i, j \in 1..Len(users) : users[i].email = users[j].email => i = j
    /\ \A p, q \in 1..MaxProcs :
          RacedAndDone(p, q) =>
              /\ Cardinality(RowsWithEmail(procs[p].req.user_email)) = 1
              /\ procs[p].status = 500 \/ procs[q].status = 500
              /\ \A r \in {p, q} :
                    /\ procs[r].status \in {200, 500}
                    /\ Cardinality(RowsOf(r)) = (IF procs[r].status = 200 THEN 1 ELSE 0)

\* C10 witness: two purchases raced, one was stored and the other failed
C10_Witness ==
    \E p, q \in 1..MaxProcs :
        /\ RacedAndDone(p, q)
        /\ procs[p].status = 200
        /\ procs[q].status = 500
        /\ Len(transactions) = 1

\* C10 as stated: such a race creates two User rows with that email, and
\* both purchases complete, each persisting its own Transaction.
C10_AsStated ==
    \A p, q \in 1..MaxProcs :
        RacedAndDone(p, q) =>
            /\ Cardinality(RowsWithEmail(procs[p].req.user_email)) = 2
            /\ procs[p].status = 200 /\ procs[q].status = 200
            /\ Cardinality(RowsOf(p)) = 1 /\ Cardinality(RowsOf(q)) = 1

====
